---- MODULE Spec2Model ----
(***************************************************************************)
(* A model of zpp::maybe (src/maybe.h): the error category created by      *)
(* make_error_category, the error descriptor zpp::error (a code and a      *)
(* pointer to its category) and the value-or-error container maybe<Type>   *)
(* (a std::variant<Type, error>), together with the README's my_error     *)
(* enumeration and its category.                                           *)
(*                                                                         *)
(* Three specifications share the definitions:                             *)
(*   Spec          one maybe<int> object and the calls made on it;         *)
(*   SpecError     error objects built via both constructors and queried;  *)
(*   SpecCategory  threads calling name()/message() on a shared category.  *)
(***************************************************************************)
EXTENDS Integers, Sequences, FiniteSets, TLC

VARIABLES
    cats,      \* address -> category object (m_name, ErrorCode, Messages)
    made,      \* history: the arguments make_error_category was given
    m,         \* the maybe<int> object: the variant's index and its storage
    built,     \* history: the argument the maybe was constructed from
    ret,       \* the result of the last call on the maybe
    called,    \* history: the member functions called on the maybe so far
    moved,     \* history: an rvalue value() has been extracted
    crashed,   \* the process was terminated by a null dereference
    errors,    \* the error objects constructed so far
    origin,    \* history: per error, the enum value and constructor used
    eret,      \* the result of the last call on an error
    tpc,       \* per thread: position inside a category call
    targ,      \* per thread: the code argument of its message() call
    tres,      \* per thread: the string returned by its last call
    msgs       \* history: the codes passed to message() so far

vars == <<cats, made, m, built, ret, called, moved, crashed,
          errors, origin, eret, tpc, targ, tres, msgs>>

maybeVars == <<m, built, ret, called, moved, crashed>>
errorVars == <<errors, origin, eret>>
threadVars == <<tpc, targ, tres, msgs>>

----------------------------------------------------------------------------
(* Bounds *)

MaxValue == 3      \* values of Type are 0..MaxValue and the README's 1337
MaxCode == 3       \* integer codes are -1..MaxCode and the undeclared 99
MaxErrors == 2     \* error objects alive at once
NumThreads == 2    \* threads sharing a category

ReadmeValue == 1337

Values == (0 .. MaxValue) \cup {ReadmeValue}
CodeInts == (-1 .. MaxCode) \cup {99}
Threads == 1 .. NumThreads

----------------------------------------------------------------------------
(* The error code enumerations.  An enum value is its type and its         *)
(* underlying int: my_error of the README and a second enumeration,        *)
(* other_error { failure = 0, ok = 1 }, whose success value is not 0.      *)

EnumTypes == {"my_error", "other_error"}
EnumValues == [type : EnumTypes, val : CodeInts]

my_error_success == [type |-> "my_error", val |-> 0]
my_error_something_bad == [type |-> "my_error", val |-> 1]
my_error_something_really_bad == [type |-> "my_error", val |-> 2]
other_error_failure == [type |-> "other_error", val |-> 0]
other_error_ok == [type |-> "other_error", val |-> 1]

Members(type) ==
    IF type = "my_error"
    THEN {my_error_success, my_error_something_bad,
          my_error_something_really_bad}
    ELSE {other_error_failure, other_error_ok}

SuccessValue(type) ==
    IF type = "my_error" THEN my_error_success ELSE other_error_ok

\* std::underlying_type_t<ErrorCode>(error_code)
underlying(error_code) == error_code.val

\* ErrorCode{code}
ErrorCode_from_int(ErrorCode, code) == [type |-> ErrorCode, val |-> code]

\* zpp::error::no_error, an empty string_view
no_error == ""

\* std::string_view::empty()
empty(sv) == sv = ""

----------------------------------------------------------------------------
(* The message translators (the Messages callable of a category).          *)

\* my_messages without the success case
my_messages_no_success(code) ==
    CASE code = my_error_something_bad -> "Something bad happened."
      [] code = my_error_something_really_bad
            -> "Something really bad happened."
      [] OTHER -> "Unknown error occurred."

\* my_messages whose default case returns no_error
my_messages_empty_default(code) ==
    CASE code = my_error_success -> no_error
      [] code = my_error_something_bad -> "Something bad happened."
      [] code = my_error_something_really_bad
            -> "Something really bad happened."
      [] OTHER -> no_error

my_messages(code) ==
    CASE code = my_error_success -> no_error
      [] code = my_error_something_bad -> "Something bad happened."
      [] code = my_error_something_really_bad
            -> "Something really bad happened."
      [] OTHER -> "Unknown error occurred."

other_messages(code) ==
    CASE code = other_error_ok -> no_error
      [] code = other_error_failure -> "Failure."
      [] OTHER -> "Unknown other error."

MessagesIds == {"my_messages", "other_messages"}

\* this->operator()(code) of a category whose Messages base is `messages`
call_messages(messages, code) ==
    IF messages = "my_messages" THEN my_messages(code)
    ELSE other_messages(code)

----------------------------------------------------------------------------
(* Categories.                                                             *)

Names == {"my_category", "other_category"}

\* a category constructor that leaves m_name empty
make_error_category_no_name(ErrorCode, name, messages) ==
    [m_name |-> "", ErrorCode |-> ErrorCode, messages |-> messages]

\* make_error_category<ErrorCode>(name, messages): the category object
make_error_category(ErrorCode, name, messages) ==
    [m_name |-> name, ErrorCode |-> ErrorCode, messages |-> messages]

\* The function-local statics of the user's category(ErrorCode) functions:
\* one object per enumeration type, at a fixed address.
Addresses == {1, 2}
nullptr == 0

MakeArgs(ErrorCode, name, messages) ==
    [ErrorCode |-> ErrorCode, name |-> name, messages |-> messages]

StaticArgs ==
    (1 :> MakeArgs("my_error", "my_category", "my_messages"))
    @@ (2 :> MakeArgs("other_error", "other_category", "other_messages"))

\* constexpr static auto error_category = zpp::make_error_category<...>(...)
MakeAll(args) ==
    [a \in Addresses |->
        make_error_category(args[a].ErrorCode, args[a].name,
                            args[a].messages)]

StaticCategories == MakeAll(StaticArgs)

\* category(my_error) / category(other_error): the address of the static
user_category(ErrorCode) == IF ErrorCode = "my_error" THEN 1 ELSE 2

\* a lookup that binds to my_error's category once an error exists
zpp_category_first_only(ErrorCode) ==
    IF errors = << >> THEN user_category(ErrorCode)
    ELSE user_category("my_error")

\* zpp::category<ErrorCode>() returns category(ErrorCode{}) by reference
zpp_category(ErrorCode) == user_category(ErrorCode)

\* category::name()
category_name(cat) == cat.m_name

\* the argument category::message(code) hands to the translator
category_message_arg(cat, code) == ErrorCode_from_int(cat.ErrorCode, code)

\* category::message(int code)
category_message(cat, code) ==
    call_messages(cat.messages, category_message_arg(cat, code))

----------------------------------------------------------------------------
(* zpp::error: m_category (an address) and m_code.                         *)

\* error(ErrorCode error_code)
error_A(error_code) ==
    [m_category |-> zpp_category(error_code.type),
     m_code |-> underlying(error_code)]

\* an explicit-category constructor that ignores its category argument
error_B_natural(error_code, category) ==
    [m_category |-> zpp_category(error_code.type),
     m_code |-> underlying(error_code)]

\* error(ErrorCode error_code, const error_category & category)
error_B(error_code, category) ==
    [m_category |-> category, m_code |-> underlying(error_code)]

\* error::category(), as the address of the referenced object
error_category(e) == e.m_category

\* error::code()
error_code(e) == e.m_code

\* error::message()
error_message(e) == category_message(cats[e.m_category], e.m_code)

\* a success test on the code instead of the message
error_bool_zero(e) == e.m_code = 0

\* error::operator bool()
error_bool(e) == empty(error_message(e))

ErrorObjects == [m_category : Addresses, m_code : CodeInts]

----------------------------------------------------------------------------
(* maybe<Type>: a std::variant<Type, error>.  `index` is the variant's     *)
(* index; `value` and `error` are the storage of alternative 0 and 1, of   *)
(* which only the active one exists (the other field is a placeholder).    *)

NullError == [m_category |-> nullptr, m_code |-> 0]

\* The arguments a maybe<Type> is constructed from: a Type, an error code
\* enumeration value, or an error object.
FromT(v) == [kind |-> "T", v |-> v, c |-> my_error_success, e |-> NullError]
FromEnum(c) == [kind |-> "enum", v |-> 0, c |-> c, e |-> error_A(c)]
FromError(c, cat) ==
    [kind |-> "error", v |-> 0, c |-> c, e |-> error_B(c, cat)]

CtorArgs ==
    {FromT(v) : v \in Values}
    \cup {FromEnum(c) : c \in EnumValues}
    \cup {FromError(c, cat) : c \in EnumValues, cat \in Addresses}

\* a constructor that takes a Type equal to a declared code for that code
maybe_ctor_by_value(arg) ==
    IF arg.kind = "T" /\ arg.v \notin {0, 1, 2}
    THEN [index |-> 0, value |-> arg.v, error |-> NullError]
    ELSE IF arg.kind = "T"
    THEN [index |-> 1, value |-> 0,
          error |-> error_A([type |-> "my_error", val |-> arg.v])]
    ELSE [index |-> 1, value |-> 0, error |-> arg.e]

\* The inherited converting constructor of std::variant<Type, error>: a
\* Type selects alternative 0; an enum value or an error selects
\* alternative 1, the enum value through error(ErrorCode).
maybe_ctor(arg) ==
    IF arg.kind = "T"
    THEN [index |-> 0, value |-> arg.v, error |-> NullError]
    ELSE [index |-> 1, value |-> 0, error |-> arg.e]

\* a conversion that asks the stored error whether it is a success
maybe_bool_delegating(obj) ==
    IF 0 = obj.index THEN TRUE ELSE error_bool(obj.error)

\* maybe::operator bool()
maybe_bool(obj) == 0 = obj.index

\* *std::get_if<type>(this), the value alternative being active
maybe_value(obj) == obj.value

\* *std::get_if<error_type>(this), the error alternative being active
maybe_error(obj) == obj.error

NoRet == [op |-> "none", b |-> FALSE, v |-> 0, e |-> NullError,
          fresh |-> FALSE]

NoERet == [op |-> "none", i |-> 0, s |-> "", a |-> nullptr, n |-> 0,
           b |-> FALSE, arg |-> my_error_success]

Init ==
    /\ cats = StaticCategories
    /\ made = StaticArgs
    /\ \E arg \in CtorArgs :
          /\ m = maybe_ctor(arg)
          /\ built = arg
    /\ ret = NoRet
    /\ called = {}
    /\ moved = FALSE
    /\ crashed = FALSE
    /\ errors = << >>
    /\ origin = << >>
    /\ eret = NoERet
    /\ tpc = [t \in Threads |-> "idle"]
    /\ targ = [t \in Threads |-> 0]
    /\ tres = [t \in Threads |-> ""]
    /\ msgs = {}

\* if (result) ...
OperatorBool ==
    /\ ~crashed
    /\ ret' = [NoRet EXCEPT !.op = "bool", !.b = maybe_bool(m)]
    /\ called' = called \cup {"bool"}
    /\ UNCHANGED <<cats, made, m, built, moved, crashed, errorVars, threadVars>>

\* result.value() on an lvalue
ValueRef ==
    /\ ~crashed
    /\ m.index = 0
    /\ ret' = [NoRet EXCEPT !.op = "value_ref", !.v = maybe_value(m),
                            !.fresh = ~moved]
    /\ called' = called \cup {"value_ref"}
    /\ UNCHANGED <<cats, made, m, built, moved, crashed, errorVars, threadVars>>

\* an extraction that leaves the variant on the other alternative
ValueMove_switching ==
    /\ ~crashed
    /\ m.index = 0
    /\ ret' = [NoRet EXCEPT !.op = "value_move", !.v = maybe_value(m),
                            !.fresh = ~moved]
    /\ m' = [m EXCEPT !.index = 1]
    /\ moved' = TRUE
    /\ called' = called \cup {"value_move"}
    /\ UNCHANGED <<cats, made, built, crashed, errorVars, threadVars>>

\* std::move(result).value(), the caller move-constructing a Type from the
\* returned rvalue reference: the stored value is left in Type's moved-from
\* state, which is unspecified (for int it is the same value).
ValueMove ==
    /\ ~crashed
    /\ m.index = 0
    /\ ret' = [NoRet EXCEPT !.op = "value_move", !.v = maybe_value(m),
                            !.fresh = ~moved]
    /\ \E rest \in Values : m' = [m EXCEPT !.value = rest]
    /\ moved' = TRUE
    /\ called' = called \cup {"value_move"}
    /\ UNCHANGED <<cats, made, built, crashed, errorVars, threadVars>>

\* result.error(), returning a copy of the stored error
MaybeError ==
    /\ ~crashed
    /\ m.index = 1
    /\ ret' = [NoRet EXCEPT !.op = "error", !.e = maybe_error(m)]
    /\ called' = called \cup {"error"}
    /\ UNCHANGED <<cats, made, m, built, moved, crashed, errorVars, threadVars>>

\* value() while the error is stored: std::get_if returns a null pointer
\* and the dereference is undefined.  The process is terminated, or the
\* read yields an arbitrary Type.  The variant itself is not written.
ValueOnError ==
    /\ ~crashed
    /\ m.index = 1
    /\ \E o \in {"value_ref", "value_move"} :
          /\ called' = called \cup {o}
          /\ \/ /\ crashed' = TRUE
                /\ ret' = [NoRet EXCEPT !.op = o]
             \/ /\ \E garbage \in Values :
                      ret' = [NoRet EXCEPT !.op = o, !.v = garbage]
                /\ UNCHANGED crashed
    /\ UNCHANGED <<cats, made, m, built, moved, errorVars, threadVars>>

\* error() while the value is stored: the copy reads through a null
\* pointer.  The process is terminated, or the copy is an arbitrary error.
ErrorOnValue ==
    /\ ~crashed
    /\ m.index = 0
    /\ called' = called \cup {"error"}
    /\ \/ /\ crashed' = TRUE
          /\ ret' = [NoRet EXCEPT !.op = "error"]
       \/ /\ \E garbage \in ErrorObjects :
                ret' = [NoRet EXCEPT !.op = "error", !.e = garbage]
          /\ UNCHANGED crashed
    /\ UNCHANGED <<cats, made, m, built, moved, errorVars, threadVars>>

Next ==
    \/ OperatorBool
    \/ ValueRef
    \/ ValueMove
    \/ MaybeError
    \/ ValueOnError
    \/ ErrorOnValue

Spec == Init /\ [][Next]_vars

----------------------------------------------------------------------------
(* SpecError: error objects built by both constructors, then queried.      *)

InitError ==
    /\ cats = StaticCategories
    /\ made = StaticArgs
    /\ m = maybe_ctor(FromT(0))
    /\ built = FromT(0)
    /\ ret = NoRet
    /\ called = {}
    /\ moved = FALSE
    /\ crashed = FALSE
    /\ errors = << >>
    /\ origin = << >>
    /\ eret = NoERet
    /\ tpc = [t \in Threads |-> "idle"]
    /\ targ = [t \in Threads |-> 0]
    /\ tres = [t \in Threads |-> ""]
    /\ msgs = {}

\* zpp::error e = code;
ConstructA ==
    /\ Len(errors) < MaxErrors
    /\ \E c \in EnumValues :
          /\ errors' = Append(errors, error_A(c))
          /\ origin' = Append(origin,
                 [from |-> c, path |-> "A", cat |-> nullptr])
    /\ eret' = NoERet
    /\ UNCHANGED <<cats, made, maybeVars, threadVars>>

\* zpp::error e(code, category);
ConstructB ==
    /\ Len(errors) < MaxErrors
    /\ \E c \in EnumValues, cat \in Addresses :
          /\ errors' = Append(errors, error_B(c, cat))
          /\ origin' = Append(origin, [from |-> c, path |-> "B", cat |-> cat])
    /\ eret' = NoERet
    /\ UNCHANGED <<cats, made, maybeVars, threadVars>>

\* &e.category()
CallCategory ==
    /\ \E i \in 1 .. Len(errors) :
          eret' = [NoERet EXCEPT !.op = "category", !.i = i,
                                 !.a = error_category(errors[i])]
    /\ UNCHANGED <<cats, made, maybeVars, errors, origin, threadVars>>

\* e.code()
CallCode ==
    /\ \E i \in 1 .. Len(errors) :
          eret' = [NoERet EXCEPT !.op = "code", !.i = i,
                                 !.n = error_code(errors[i])]
    /\ UNCHANGED <<cats, made, maybeVars, errors, origin, threadVars>>

\* e.message(); `arg` records the value the translator was called with
CallMessage ==
    /\ \E i \in 1 .. Len(errors) :
          eret' = [NoERet EXCEPT
                      !.op = "message", !.i = i,
                      !.s = error_message(errors[i]),
                      !.arg = category_message_arg(
                                  cats[errors[i].m_category],
                                  errors[i].m_code)]
    /\ UNCHANGED <<cats, made, maybeVars, errors, origin, threadVars>>

\* if (e) ...
CallBool ==
    /\ \E i \in 1 .. Len(errors) :
          eret' = [NoERet EXCEPT !.op = "bool", !.i = i,
                                 !.b = error_bool(errors[i])]
    /\ UNCHANGED <<cats, made, maybeVars, errors, origin, threadVars>>

NextError ==
    \/ ConstructA
    \/ ConstructB
    \/ CallCategory
    \/ CallCode
    \/ CallMessage
    \/ CallBool

SpecError == InitError /\ [][NextError]_vars

----------------------------------------------------------------------------
(* SpecCategory: a category made by make_error_category, placed in the     *)
(* static at address 1 and shared by threads that call name() and          *)
(* message() on it without synchronization.  A call is entered, runs its   *)
(* body (one read of the object) and returns.                              *)

Shared == user_category("my_error")

InitCategory ==
    /\ \E ErrorCode \in EnumTypes, name \in Names :
          made = [StaticArgs EXCEPT ![Shared] =
                     MakeArgs(ErrorCode, name,
                              IF ErrorCode = "my_error" THEN "my_messages"
                              ELSE "other_messages")]
    /\ cats = MakeAll(made)
    /\ m = maybe_ctor(FromT(0))
    /\ built = FromT(0)
    /\ ret = NoRet
    /\ called = {}
    /\ moved = FALSE
    /\ crashed = FALSE
    /\ errors = << >>
    /\ origin = << >>
    /\ eret = NoERet
    /\ tpc = [t \in Threads |-> "idle"]
    /\ targ = [t \in Threads |-> 0]
    /\ tres = [t \in Threads |-> ""]
    /\ msgs = {}

\* a thread calls category.message(code)
EnterMessage(t) ==
    /\ tpc[t] = "idle"
    /\ \E code \in CodeInts :
          /\ targ' = [targ EXCEPT ![t] = code]
          /\ msgs' = msgs \cup {code}
    /\ tpc' = [tpc EXCEPT ![t] = "message"]
    /\ UNCHANGED <<cats, made, maybeVars, errorVars, tres>>

\* a message() that caches the translated text in the object
MessageBody_caching(t) ==
    /\ tpc[t] = "message"
    /\ tres' = [tres EXCEPT ![t] = category_message(cats[Shared], targ[t])]
    /\ cats' = [cats EXCEPT ![Shared].m_name =
                   category_message(cats[Shared], targ[t])]
    /\ tpc' = [tpc EXCEPT ![t] = "message_done"]
    /\ UNCHANGED <<made, maybeVars, errorVars, targ, msgs>>

\* return this->operator()(ErrorCode{code});
MessageBody(t) ==
    /\ tpc[t] = "message"
    /\ tres' = [tres EXCEPT ![t] = category_message(cats[Shared], targ[t])]
    /\ tpc' = [tpc EXCEPT ![t] = "message_done"]
    /\ UNCHANGED <<cats, made, maybeVars, errorVars, targ, msgs>>

\* a thread calls category.name()
EnterName(t) ==
    /\ tpc[t] = "idle"
    /\ tpc' = [tpc EXCEPT ![t] = "name"]
    /\ UNCHANGED <<cats, made, maybeVars, errorVars, targ, tres, msgs>>

\* return m_name;
NameBody(t) ==
    /\ tpc[t] = "name"
    /\ tres' = [tres EXCEPT ![t] = category_name(cats[Shared])]
    /\ tpc' = [tpc EXCEPT ![t] = "name_done"]
    /\ UNCHANGED <<cats, made, maybeVars, errorVars, targ, msgs>>

\* the caller has consumed the returned string_view
Return(t) ==
    /\ tpc[t] \in {"message_done", "name_done"}
    /\ tpc' = [tpc EXCEPT ![t] = "idle"]
    /\ targ' = [targ EXCEPT ![t] = 0]
    /\ tres' = [tres EXCEPT ![t] = ""]
    /\ UNCHANGED <<cats, made, maybeVars, errorVars, msgs>>

NextCategory ==
    \E t \in Threads :
        \/ EnterMessage(t)
        \/ MessageBody(t)
        \/ EnterName(t)
        \/ NameBody(t)
        \/ Return(t)

SpecCategory == InitCategory /\ [][NextCategory]_vars

----------------------------------------------------------------------------
(* Properties of maybe<Type>, checked under Spec.                          *)

\* C1: a maybe constructed from a value v of Type converts to true, and
\* value() returns v: the by-reference overload on every call made before
\* an extraction, the rvalue overload for the one extraction.  This holds
\* also for v equal to the integer of an error code (0, 1, 2).
C1_ValueConstructedHoldsValue ==
    built.kind = "T" =>
        /\ maybe_bool(m)
        /\ (ret.op = "bool" => ret.b = TRUE)
        /\ (ret.op = "value_ref" /\ ret.fresh => ret.v = built.v)
        /\ (ret.op = "value_move" /\ ret.fresh => ret.v = built.v)

C1_Witness ==
    /\ built.kind = "T"
    /\ built.v = 1
    /\ ret.op = "value_move"
    /\ ret.fresh
    /\ ret.v = 1
    /\ {"bool", "value_ref"} \subseteq called

\* C2: a maybe constructed from any error code enum value c, the success
\* code included, converts to false, and error().code() is the underlying
\* integer of c.
C2_CodeConstructedHoldsError ==
    built.kind = "enum" =>
        /\ ~maybe_bool(m)
        /\ (ret.op = "bool" => ret.b = FALSE)
        /\ (ret.op = "error" => error_code(ret.e) = built.c.val)

C2_Witness ==
    /\ built.kind = "enum"
    /\ built.c = my_error_success
    /\ ret.op = "error"
    /\ error_code(ret.e) = 0
    /\ "bool" \in called

\* C6: the active alternative never changes: after any sequence of calls
\* to operator bool, value() and error() the index is the one chosen at
\* construction, and operator bool reports it.
C6_AlternativeFixed ==
    [][/\ m'.index = m.index
       /\ (ret'.op = "bool" => ret'.b = (built.kind = "T"))]_vars

C6_Witness ==
    /\ built.kind = "T"
    /\ {"value_ref", "value_move", "error"} \subseteq called
    /\ moved
    /\ ~crashed
    /\ ret.op = "bool"
    /\ ret.b = TRUE

\* C10: the two notions of success can disagree: a maybe constructed from
\* a success code converts to false while the error it holds converts to
\* true; and a maybe holding any error converts to false whatever the
\* error's code and message are.
C10_SuccessNotionsDisagree ==
    /\ (built.kind # "T" /\ ret.op = "bool" => ret.b = FALSE)
    /\ (/\ built.kind = "enum"
        /\ built.c = SuccessValue(built.c.type)
        /\ ret.op = "error"
        => error_bool(ret.e) /\ ~maybe_bool(m))

C10_Witness ==
    /\ built.kind = "enum"
    /\ built.c = other_error_ok
    /\ ret.op = "error"
    /\ error_bool(ret.e)
    /\ ~maybe_bool(m)
    /\ "bool" \in called

----------------------------------------------------------------------------
(* Properties of zpp::error, checked under SpecError.                      *)

IsDeclared(ErrorCode, n) == \E c \in Members(ErrorCode) : c.val = n

\* C3: for an error built by error(ErrorCode) from a declared member c of
\* an enumeration whose category follows the documented table, the error
\* converts to true and its message is empty exactly when c is the success
\* value; for every other member it converts to false and the message is
\* not empty.
C3_SuccessIffEmptyMessage ==
    /\ eret.op \in {"bool", "message"}
    /\ origin[eret.i].path = "A"
    /\ origin[eret.i].from \in Members(origin[eret.i].from.type)
    => LET c == origin[eret.i].from
           success == c = SuccessValue(c.type)
       IN /\ (eret.op = "bool" => eret.b = success)
          /\ (eret.op = "message" => (empty(eret.s) <=> success))

C3_Witness ==
    /\ Len(errors) = 2
    /\ origin[1] = [from |-> my_error_something_really_bad, path |-> "A",
                    cat |-> nullptr]
    /\ origin[2] = [from |-> my_error_success, path |-> "A", cat |-> nullptr]
    /\ eret.op = "bool"
    /\ eret.i = 2
    /\ eret.b = TRUE

\* C4: for an integer code u that is not a declared member of the
\* category's enumeration, message(u) is the fallback text: not empty, the
\* same for every such u, different from the message of every declared
\* member ("Unknown error occurred." for my_category); an error carrying u
\* does not convert to true.
C4_UnknownCodeFallback ==
    eret.op \in {"bool", "message"} =>
        LET e == errors[eret.i]
            cat == cats[e.m_category]
        IN ~IsDeclared(cat.ErrorCode, e.m_code) =>
              /\ eret.op = "bool" => eret.b = FALSE
              /\ eret.op = "message" =>
                    /\ ~empty(eret.s)
                    /\ \A c \in Members(cat.ErrorCode) :
                           eret.s # category_message(cat, c.val)
                    /\ \A u \in CodeInts :
                           ~IsDeclared(cat.ErrorCode, u) =>
                               category_message(cat, u) = eret.s
                    /\ (e.m_category = user_category("my_error") =>
                           eret.s = "Unknown error occurred.")

C4_Witness ==
    /\ eret.op = "message"
    /\ origin[eret.i].from = [type |-> "my_error", val |-> 99]
    /\ origin[eret.i].path = "A"
    /\ eret.s = "Unknown error occurred."

\* C5: two errors built by error(ErrorCode) from values of the same
\* enumeration type refer to the same category object, however many errors
\* were built before them; errors of different enumeration types refer to
\* different objects, each to the category of its own type.
C5_CategoryIdentity ==
    \A i, j \in 1 .. Len(errors) :
        origin[i].path = "A" /\ origin[j].path = "A" =>
            /\ (origin[i].from.type = origin[j].from.type
                  <=> error_category(errors[i]) = error_category(errors[j]))
            /\ cats[error_category(errors[i])].ErrorCode
                  = origin[i].from.type
            /\ (/\ eret.op = "category"
                /\ eret.i = i
                /\ origin[i].from.type = origin[j].from.type
                => eret.a = error_category(errors[j]))

C5_Witness ==
    /\ Len(errors) = 2
    /\ origin[1].path = "A"
    /\ origin[2].path = "A"
    /\ origin[1].from = other_error_failure
    /\ origin[2].from = other_error_ok
    /\ eret.op = "category"
    /\ eret.i = 2
    /\ eret.a = error_category(errors[1])

----------------------------------------------------------------------------
(* Properties of the category, checked under SpecCategory.                 *)

\* C7: a category made with name n returns n from every name() call,
\* whatever message() calls were made before it and with whatever codes.
C7_NameStable ==
    \A t \in Threads :
        tpc[t] = "name_done" => tres[t] = made[Shared].name

C7_Witness ==
    /\ made[Shared].name = "other_category"
    /\ Cardinality(msgs) >= 2
    /\ \A t \in Threads : tpc[t] = "name_done"

\* C8: name() and message() calls of several threads on one category, in
\* any interleaving, leave the category as constructed, and each call
\* returns what it returns when run alone: message(code) the translation
\* of code, name() the name.
C8_ConcurrentCallsPure ==
    /\ cats = MakeAll(made)
    /\ \A t \in Threads :
          /\ tpc[t] = "message_done" =>
                tres[t] = call_messages(made[Shared].messages,
                              ErrorCode_from_int(made[Shared].ErrorCode,
                                                 targ[t]))
          /\ tpc[t] = "name_done" => tres[t] = made[Shared].name

C8_Witness ==
    /\ \E t, u \in Threads :
          /\ t # u
          /\ tpc[t] = "message_done"
          /\ targ[t] = 1
          /\ tpc[u] \in {"message", "name"}
    /\ Cardinality(msgs) >= 2

====
